---- MODULE Spec2Model ----
(***************************************************************************)
(* cssSelectorBuilder of src/src/05-objects-tasks.js as a state machine.   *)
(*                                                                         *)
(* The builder is one shared object; its fields are the variables arr,     *)
(* comb, isCombo, elCount, idCount and psCount.  Every method is an        *)
(* operator from the object ("this") and the arguments to the object after *)
(* the call and what the call gives back (the builder, a string, or a      *)
(* thrown Error), and an action that applies it to the variables.          *)
(*                                                                         *)
(* Strings are sequences of one-character strings, so that the regular     *)
(* expressions of the code (which look at the first one or two characters  *)
(* of the last fragment), the template literals and join('') are computed  *)
(* as the code computes them.                                              *)
(*                                                                         *)
(* Rectangle of the same file is modelled beside it (variable rect).       *)
(***************************************************************************)
EXTENDS Naturals, Sequences, FiniteSets

VARIABLES
    arr,       \* this.arr: the fragments, null marks a combinator slot
    comb,      \* this.comb: the recorded combinator tokens
    isCombo,   \* this.isCombo
    elCount,   \* this.elCount
    idCount,   \* this.idCount
    psCount,   \* this.psCount
    op,        \* the last call made: [name, value]
    res,       \* what the last call gave back: [ret, str, err]
    chain,     \* what the calls of the current chain amount to (see NewChain)
    mode,      \* who drives the builder: "free", "expr", "twin" or "two"
               \* ("rect": the builder is left alone, a Rectangle is used)
    expr,      \* "expr": the selector expression evaluated so far (see ExprStep)
    twin,      \* "twin": a second builder, created anew at each thrown Error
    two,       \* "two": the two chains being built in turns (see TwoStep)
    rect       \* "rect": a Rectangle object and the last use made of it

\* the builder's fields and what is recorded about its callers
selector == <<arr, comb, isCombo, elCount, idCount, psCount, op, res, chain, mode,
              expr, twin, two>>

vars == <<selector, rect>>

---------------------------------------------------------------------------
(* Bounds of the model *)

\* longest fragment sequence explored
MaxArr == 4

\* most combinator tokens recorded at once
MaxComb == 1

\* most simple selectors in one selector expression
MaxLeaves == 3

\* most fragments in one simple selector of a selector expression
MaxFrags == 2

\* largest side of a Rectangle besides those of the documented example
MaxSide == 3

\* the fragment values passed to the methods (non-empty identifiers)
Values == {<<"a">>, <<"b">>}

\* the combinators passed to combine (two of ' ', '+', '~', '>')
Combinators == {"+", "~"}

---------------------------------------------------------------------------
(* JavaScript values *)

\* null, pushed by element() as the slot of a combinator
Null == <<"null">>

\* what arr[arr.length - 1] is for an empty array
Undefined == <<"undefined">>

\* a value that passes `if (x)` / `x &&`: not null, not undefined, not ''
Truthy(x) == x # Null /\ x # Undefined /\ x # <<>>

\* this.arr[this.arr.length - 1]
lastEl(this) == IF Len(this.arr) = 0 THEN Undefined ELSE this.arr[Len(this.arr)]

\* str.match(/^[chars]/): the first character is one of chars
match(str, chars) == Len(str) >= 1 /\ str[1] \in chars

\* str.match(/^::/)
matchColonColon(str) == Len(str) >= 2 /\ str[1] = ":" /\ str[2] = ":"

errDoubleElem == "Element, id and pseudo-element should not occur more then one time inside the selector"

errWrongElemOrder == "Selector parts should be arranged in the following order: element, id, class, attribute, pseudo-class, pseudo-element"

---------------------------------------------------------------------------
(* The builder object *)

\* the object literal's fields as written
InitBuilder ==
    [arr |-> <<>>, comb |-> <<>>, isCombo |-> FALSE,
     elCount |-> 0, idCount |-> 0, psCount |-> 0]

\* the builder as it is now
This ==
    [arr |-> arr, comb |-> comb, isCombo |-> isCombo,
     elCount |-> elCount, idCount |-> idCount, psCount |-> psCount]

\* `return this`
ReturnThis(this) == [this |-> this, ret |-> "this", str |-> <<>>, err |-> ""]

\* `throw new Error(msg)` leaving the fields as they are in this
Throw(this, msg) == [this |-> this, ret |-> "throw", str |-> <<>>, err |-> msg]

counterReset(this) ==
    [this EXCEPT !.elCount = 0, !.idCount = 0, !.psCount = 0]

\* arrsReset that forgets this.comb
arrsReset_keepComb(this) ==
    [this EXCEPT !.arr = <<>>]

arrsReset(this) ==
    [this EXCEPT !.comb = <<>>, !.arr = <<>>]

\* errorHandler that throws without resetting anything
errorHandler_onlyThrows(this, str) ==
    Throw(this, str)

errorHandler(this, str) ==
    Throw(arrsReset(counterReset(this)), str)

\* element that starts the next operand without counterReset()
element_noReset(this, value) ==
    LET last == lastEl(this) IN
    IF Truthy(last) /\ ~match(last, {".", "#", ":", "[", " "})
    THEN errorHandler(this, errDoubleElem)
    ELSE IF Truthy(last) /\ this.elCount = 0 /\ match(last, {"#", "[", ":"})
    THEN errorHandler(this, errWrongElemOrder)
    ELSE LET pushed ==
                 IF Truthy(last)
                 THEN [this EXCEPT !.arr = Append(Append(@, Null), value),
                                   !.isCombo = TRUE, !.elCount = 0]
                 ELSE [this EXCEPT !.arr = Append(@, value)]
         IN  ReturnThis([pushed EXCEPT !.elCount = @ + 1])

element(this, value) ==
    LET last == lastEl(this) IN
    IF Truthy(last) /\ ~match(last, {".", "#", ":", "[", " "})
    THEN errorHandler(this, errDoubleElem)
    ELSE IF Truthy(last) /\ this.elCount = 0 /\ match(last, {"#", "[", ":"})
    THEN errorHandler(this, errWrongElemOrder)
    ELSE LET pushed ==
                 IF Truthy(last)
                 THEN counterReset([this EXCEPT !.arr = Append(Append(@, Null), value),
                                                !.isCombo = TRUE])
                 ELSE [this EXCEPT !.arr = Append(@, value)]
         IN  ReturnThis([pushed EXCEPT !.elCount = @ + 1])

\* id that checks the order before the count
id_orderFirst(this, value) ==
    LET last == lastEl(this) IN
    IF Truthy(last) /\ match(last, {".", "[", ":"})
    THEN errorHandler(this, errWrongElemOrder)
    ELSE IF this.idCount # 0
    THEN errorHandler(this, errDoubleElem)
    ELSE ReturnThis([this EXCEPT !.arr = Append(@, <<"#">> \o value),
                                 !.idCount = @ + 1])

id(this, value) ==
    LET last == lastEl(this) IN
    IF this.idCount # 0
    THEN errorHandler(this, errDoubleElem)
    ELSE IF Truthy(last) /\ match(last, {".", "[", ":"})
    THEN errorHandler(this, errWrongElemOrder)
    ELSE ReturnThis([this EXCEPT !.arr = Append(@, <<"#">> \o value),
                                 !.idCount = @ + 1])

\* class without the check of the last fragment
class_noCheck(this, value) ==
    ReturnThis([this EXCEPT !.arr = Append(@, <<".">> \o value)])

class(this, value) ==
    LET last == lastEl(this) IN
    IF Truthy(last) /\ match(last, {"[", ":"})
    THEN errorHandler(this, errWrongElemOrder)
    ELSE ReturnThis([this EXCEPT !.arr = Append(@, <<".">> \o value)])

\* attr that leaves out the closing bracket
attr_noClose(this, value) ==
    LET last == lastEl(this) IN
    IF Truthy(last) /\ match(last, {":"})
    THEN errorHandler(this, errWrongElemOrder)
    ELSE ReturnThis([this EXCEPT !.arr = Append(@, <<"[">> \o value)])

attr(this, value) ==
    LET last == lastEl(this) IN
    IF Truthy(last) /\ match(last, {":"})
    THEN errorHandler(this, errWrongElemOrder)
    ELSE ReturnThis([this EXCEPT !.arr = Append(@, <<"[">> \o value \o <<"]">>)])

pseudoClass(this, value) ==
    LET last == lastEl(this) IN
    IF Truthy(last) /\ matchColonColon(last)
    THEN errorHandler(this, errWrongElemOrder)
    ELSE ReturnThis([this EXCEPT !.arr = Append(@, <<":">> \o value)])

\* pseudoElement without the check of psCount
pseudoElement_noCheck(this, value) ==
    ReturnThis([this EXCEPT !.arr = Append(@, <<":", ":">> \o value),
                            !.psCount = @ + 1])

pseudoElement(this, value) ==
    IF this.psCount # 0
    THEN errorHandler(this, errDoubleElem)
    ELSE ReturnThis([this EXCEPT !.arr = Append(@, <<":", ":">> \o value),
                                 !.psCount = @ + 1])

\* combine that also marks the builder as composite
combine_setsCombo(this, combinator) ==
    ReturnThis([this EXCEPT !.comb = Append(@, <<" ", combinator, " ">>),
                            !.isCombo = TRUE])

\* the selector arguments are not used: only the combinator is recorded
combine(this, combinator) ==
    ReturnThis([this EXCEPT !.comb = Append(@, <<" ", combinator, " ">>)])

\* this.arr.filter((el) => el === null).length
RECURSIVE nullCount(_)
nullCount(a) ==
    IF a = <<>> THEN 0
    ELSE (IF Head(a) = Null THEN 1 ELSE 0) + nullCount(Tail(a))

\* this.comb.reverse()
RECURSIVE reverse(_)
reverse(s) == IF s = <<>> THEN <<>> ELSE Append(reverse(Tail(s)), Head(s))

\* this.arr.indexOf(null), 0 standing for JavaScript's -1
indexOfNull(a) ==
    IF \E i \in 1..Len(a) : a[i] = Null
    THEN CHOOSE i \in 1..Len(a) : a[i] = Null /\ \A j \in 1..(i - 1) : a[j] # Null
    ELSE 0

\* tokens.forEach((el) => { arr[arr.indexOf(null)] = el; })
RECURSIVE fill(_, _)
fill(a, tokens) ==
    IF tokens = <<>> THEN a
    ELSE LET i == indexOfNull(a) IN
         fill(IF i = 0 THEN a ELSE [a EXCEPT ![i] = Head(tokens)], Tail(tokens))

\* this.arr.join(''): null is joined as the empty string
RECURSIVE join(_)
join(a) ==
    IF a = <<>> THEN <<>>
    ELSE (IF Head(a) = Null THEN <<>> ELSE Head(a)) \o join(Tail(a))

\* stringify that forgets this.comb = []
stringify_keepComb(this) ==
    IF this.isCombo /\ Len(this.comb) # nullCount(this.arr)
    THEN Throw(this, "")
    ELSE LET filled == IF this.isCombo THEN fill(this.arr, reverse(this.comb))
                                       ELSE this.arr
             cleared == [this EXCEPT !.isCombo = FALSE, !.arr = <<>>]
         IN  [this |-> counterReset(cleared), ret |-> "string",
              str |-> join(filled), err |-> ""]

\* stringify without the comparison of the two counts
stringify_noCheck(this) ==
    LET filled == IF this.isCombo THEN fill(this.arr, reverse(this.comb))
                                  ELSE this.arr
        cleared == [this EXCEPT !.isCombo = FALSE, !.comb = <<>>, !.arr = <<>>]
    IN  [this |-> counterReset(cleared), ret |-> "string",
         str |-> join(filled), err |-> ""]

\* stringify that resets through errorHandler when the counts differ
stringify_resetOnMismatch(this) ==
    IF this.isCombo /\ Len(this.comb) # nullCount(this.arr)
    THEN errorHandler(this, "")
    ELSE LET filled == IF this.isCombo THEN fill(this.arr, reverse(this.comb))
                                       ELSE this.arr
             cleared == [this EXCEPT !.isCombo = FALSE, !.comb = <<>>, !.arr = <<>>]
         IN  [this |-> counterReset(cleared), ret |-> "string",
              str |-> join(filled), err |-> ""]

stringify(this) ==
    IF this.isCombo /\ Len(this.comb) # nullCount(this.arr)
    THEN Throw(this, "")
    ELSE LET filled == IF this.isCombo THEN fill(this.arr, reverse(this.comb))
                                       ELSE this.arr
             cleared == [this EXCEPT !.isCombo = FALSE, !.comb = <<>>, !.arr = <<>>]
         IN  [this |-> counterReset(cleared), ret |-> "string",
              str |-> join(filled), err |-> ""]

---------------------------------------------------------------------------
(* The callers' side: chains and selector expressions *)

Call(name, value) == [name |-> name, value |-> value]

NoCall == Call("none", <<>>)

Result(out) == [ret |-> out.ret, str |-> out.str, err |-> out.err]

\* the six fragment methods and their place in the fixed order
\* element, id, class, attribute, pseudo-class, pseudo-element
FragmentNames == {"element", "id", "class", "attr", "pseudoClass", "pseudoElement"}

Rank(name) ==
    CASE name = "element" -> 1
      [] name = "id" -> 2
      [] name = "class" -> 3
      [] name = "attr" -> 4
      [] name = "pseudoClass" -> 5
      [] name = "pseudoElement" -> 6
      [] OTHER -> 0

\* the categories that may occur several times in one simple selector
Repeatable == {"class", "attr", "pseudoClass"}

\* a fragment of category `name` may come after a fragment of rank `last`
\* in the order element?, id?, class*, attr*, pseudoClass*, pseudoElement?
CanFollow(last, name) ==
    Rank(name) > last \/ (Rank(name) = last /\ name \in Repeatable)

\* the text a fragment stands for in a selector: the value with its prefix
Fragment(call) ==
    CASE call.name = "element" -> call.value
      [] call.name = "id" -> <<"#">> \o call.value
      [] call.name = "class" -> <<".">> \o call.value
      [] call.name = "attr" -> <<"[">> \o call.value \o <<"]">>
      [] call.name = "pseudoClass" -> <<":">> \o call.value
      [] call.name = "pseudoElement" -> <<":", ":">> \o call.value
      [] OTHER -> <<>>

\* the last call ended its chain: it returned a string or threw
Closed == op = NoCall \/ res.ret # "this"

\* A chain is the calls from one end (a returned string, a thrown Error) to
\* the next.  clean: it started on a builder in its initial state; seen: the
\* methods called; last: the highest rank among the fragments; ordered: the
\* calls are fragment calls in the order element?, id?, class*, attr*,
\* pseudoClass*, pseudoElement?, then possibly stringify; want: for a clean
\* ordered chain, its fragments' texts in call order.
NewChain ==
    [clean |-> This = InitBuilder, seen |-> {}, last |-> 0,
     ordered |-> TRUE, want |-> <<>>]

CurChain == IF Closed THEN NewChain ELSE chain

Extend(ch, call) ==
    LET isFrag == call.name \in FragmentNames
        ok == /\ ch.ordered
              /\ call.name # "combine"
              /\ isFrag => CanFollow(ch.last, call.name)
    IN  [clean |-> ch.clean,
         seen |-> ch.seen \cup {call.name},
         last |-> IF isFrag /\ Rank(call.name) > ch.last THEN Rank(call.name) ELSE ch.last,
         ordered |-> ok,
         want |-> IF ch.clean /\ ok THEN ch.want \o Fragment(call) ELSE <<>>]

\* A selector expression is a simple selector (a chain of fragment calls in
\* the fixed order) or builder.combine(e1, c, e2) of two expressions, with
\* .stringify() called on the outermost one.  JavaScript evaluates the
\* arguments before the call, so the methods run in postfix order: expr.stack
\* holds the operands evaluated and not yet combined, each with the string the
\* expression stands for (str), its shape ("L" a simple selector, "(" e1 e2 ")"
\* a combination), and for a simple selector still growing the rank of its
\* last fragment (last) and its length (len).
ExprOff == [pc |-> "off", stack |-> <<>>, leaves |-> 0]

ExprStart == [pc |-> "run", stack |-> <<>>, leaves |-> 0]

Top(stack) == stack[Len(stack)]

Pop(stack, n) == SubSeq(stack, 1, Len(stack) - n)

\* the value of the fragments of the k-th simple selector of an expression:
\* neighbouring operands get different values
LeafValue(k) == IF k % 2 = 1 THEN <<"a">> ELSE <<"b">>

\* the call comes next in some selector expression
ExprSched(call, newLeaf) ==
    /\ expr.pc = "run"
    /\ CASE call.name \in FragmentNames ->
                IF newLeaf
                THEN /\ expr.leaves < MaxLeaves
                     /\ call.value = LeafValue(expr.leaves + 1)
                ELSE /\ call.value = LeafValue(expr.leaves)
                     /\ expr.stack # <<>>
                     /\ Top(expr.stack).len > 0
                     /\ Top(expr.stack).len < MaxFrags
                     /\ CanFollow(Top(expr.stack).last, call.name)
         [] call.name = "combine" -> ~newLeaf /\ Len(expr.stack) >= 2
         [] call.name = "stringify" -> ~newLeaf /\ Len(expr.stack) = 1
         [] OTHER -> FALSE

ExprStep(call, newLeaf, ret) ==
    LET st == expr.stack
        stack2 ==
            CASE call.name \in FragmentNames /\ newLeaf ->
                    Append(st, [str |-> Fragment(call), shape |-> <<"L">>,
                                last |-> Rank(call.name), len |-> 1])
              [] call.name \in FragmentNames /\ ~newLeaf ->
                    Append(Pop(st, 1),
                           [str |-> Top(st).str \o Fragment(call), shape |-> <<"L">>,
                            last |-> Rank(call.name), len |-> Top(st).len + 1])
              [] call.name = "combine" ->
                    LET e1 == st[Len(st) - 1]
                        e2 == st[Len(st)]
                    IN  Append(Pop(st, 2),
                               [str |-> e1.str \o <<" ">> \o call.value \o <<" ">> \o e2.str,
                                shape |-> <<"(">> \o e1.shape \o e2.shape \o <<")">>,
                                last |-> 0, len |-> 0])
              [] OTHER -> st
    IN  [pc |-> IF ret = "this" THEN "run" ELSE "done",
         stack |-> stack2,
         leaves |-> IF newLeaf THEN expr.leaves + 1 ELSE expr.leaves]

\* the second builder of mode "twin": on once an Error was thrown, from then
\* on given the same calls; res is what the last call gave back on it
TwinOff == [on |-> FALSE, this |-> InitBuilder, res |-> Result(ReturnThis(InitBuilder))]

TwinStep(out, twinOut) ==
    [on |-> twin.on \/ out.ret = "throw",
     this |-> IF out.ret = "throw" \/ ~twin.on THEN InitBuilder ELSE twinOut.this,
     res |-> IF twin.on THEN Result(twinOut) ELSE Result(out)]

\* Two callers, each building one simple selector (fragment calls in the
\* fixed order, then stringify()) on the shared builder, their calls taken in
\* any interleaving.  Caller "A" passes the value 'a', caller "B" the value
\* 'b'.  Per caller: pc ("run" until its chain returned a string or threw),
\* last (rank of its last fragment), n (its fragment calls so far), want (the
\* text of its own fragments: what its stringify() returns when it is alone),
\* mixed (the other caller made a call while this chain was under way).
Callers == {"A", "B"}

Other(c) == IF c = "A" THEN "B" ELSE "A"

ValueOf(c) == IF c = "A" THEN <<"a">> ELSE <<"b">>

TwoOff ==
    [who |-> "none", pc |-> [c \in Callers |-> "done"], last |-> [c \in Callers |-> 0],
     n |-> [c \in Callers |-> 0], want |-> [c \in Callers |-> <<>>],
     mixed |-> [c \in Callers |-> FALSE]]

TwoStart == [TwoOff EXCEPT !.pc = [c \in Callers |-> "run"]]

\* caller c can make the call next in its chain
TwoSched(call, c) ==
    /\ two.pc[c] = "run"
    /\ CASE call.name \in FragmentNames ->
                /\ call.value = ValueOf(c)
                /\ two.n[c] < MaxFrags
                /\ CanFollow(two.last[c], call.name)
         [] call.name = "stringify" -> two.n[c] >= 1
         [] OTHER -> FALSE

TwoStep(call, c, ret) ==
    LET d == Other(c)
        isFrag == call.name \in FragmentNames
    IN  [who |-> c,
         pc |-> [two.pc EXCEPT ![c] = IF ret = "this" THEN "run" ELSE "done"],
         last |-> [two.last EXCEPT ![c] = IF isFrag THEN Rank(call.name) ELSE @],
         n |-> [two.n EXCEPT ![c] = IF isFrag THEN @ + 1 ELSE @],
         want |-> [two.want EXCEPT ![c] = IF isFrag THEN @ \o Fragment(call) ELSE @],
         mixed |-> [two.mixed EXCEPT
                        ![d] = @ \/ (two.pc[d] = "run" /\ two.n[d] >= 1)]]

---------------------------------------------------------------------------
(* Rectangle *)

\* the sides passed to the constructor and assigned to the fields
Sides == (0 .. MaxSide) \cup {10, 20}

\* new Rectangle(width, height): the object's fields, and the parameters as
\* the arrow function's scope holds them
Rectangle(width, height) ==
    [width |-> width, height |-> height,
     scope |-> [width |-> width, height |-> height]]

\* getArea that multiplies the constructor's parameters
getArea_fromArgs(this) ==
    this.scope.width * this.scope.height

\* this.getArea(): the arrow function reads the object's fields when called
getArea(this) ==
    this.width * this.height

\* rect: the object (obj), the last use of it (use) and what getArea() last
\* returned (area)
RectOff == [obj |-> Rectangle(0, 0), use |-> "none", area |-> 0]

RectStart ==
    {[obj |-> Rectangle(w, h), use |-> "new", area |-> 0] : w \in Sides, h \in Sides}

---------------------------------------------------------------------------
(* The calls as steps of the state machine *)

\* one call: `out` is what the method computes on the builder as it is now,
\* twinOut what it computes on the second builder
Step(call, out, twinOut, newLeaf) ==
    /\ mode \in {"free", "expr", "twin", "two"}
    /\ CASE mode = "expr" -> ExprSched(call, newLeaf) /\ two' = two
         [] mode = "two" ->
                /\ ~newLeaf
                /\ \E c \in Callers :
                        TwoSched(call, c) /\ two' = TwoStep(call, c, out.ret)
         [] OTHER ->
                /\ ~newLeaf
                /\ Len(out.this.arr) <= MaxArr
                /\ Len(out.this.comb) <= MaxComb
                /\ two' = two
    /\ (mode = "twin" /\ twin.on) =>
            /\ Len(twinOut.this.arr) <= MaxArr
            /\ Len(twinOut.this.comb) <= MaxComb
    /\ arr' = out.this.arr
    /\ comb' = out.this.comb
    /\ isCombo' = out.this.isCombo
    /\ elCount' = out.this.elCount
    /\ idCount' = out.this.idCount
    /\ psCount' = out.this.psCount
    /\ op' = call
    /\ res' = Result(out)
    /\ chain' = Extend(CurChain, call)
    /\ mode' = mode
    /\ expr' = IF mode = "expr" THEN ExprStep(call, newLeaf, out.ret) ELSE expr
    /\ twin' = IF mode = "twin" THEN TwinStep(out, twinOut) ELSE twin
    /\ rect' = rect

InitMode(m) ==
    /\ arr = InitBuilder.arr
    /\ comb = InitBuilder.comb
    /\ isCombo = InitBuilder.isCombo
    /\ elCount = InitBuilder.elCount
    /\ idCount = InitBuilder.idCount
    /\ psCount = InitBuilder.psCount
    /\ op = NoCall
    /\ res = Result(ReturnThis(InitBuilder))
    /\ chain = NewChain
    /\ mode = m
    /\ expr = IF m = "expr" THEN ExprStart ELSE ExprOff
    /\ twin = TwinOff
    /\ two = IF m = "two" THEN TwoStart ELSE TwoOff
    /\ rect \in IF m = "rect" THEN RectStart ELSE {RectOff}

\* any caller: the methods in any order
Init == InitMode("free")

\* a caller that evaluates one selector expression on the new builder
InitExpr == InitMode("expr")

\* any caller, with the second builder alongside
InitTwin == InitMode("twin")

\* two callers taking turns on the new builder
InitTwo == InitMode("two")

\* a caller of Rectangle: the object as the constructor left it
InitRect == InitMode("rect")

Element ==
    \E value \in Values, newLeaf \in BOOLEAN :
        Step(Call("element", value), element(This, value), element(twin.this, value), newLeaf)

Id ==
    \E value \in Values, newLeaf \in BOOLEAN :
        Step(Call("id", value), id(This, value), id(twin.this, value), newLeaf)

Class ==
    \E value \in Values, newLeaf \in BOOLEAN :
        Step(Call("class", value), class(This, value), class(twin.this, value), newLeaf)

Attr ==
    \E value \in Values, newLeaf \in BOOLEAN :
        Step(Call("attr", value), attr(This, value), attr(twin.this, value), newLeaf)

PseudoClass ==
    \E value \in Values, newLeaf \in BOOLEAN :
        Step(Call("pseudoClass", value), pseudoClass(This, value),
             pseudoClass(twin.this, value), newLeaf)

PseudoElement ==
    \E value \in Values, newLeaf \in BOOLEAN :
        Step(Call("pseudoElement", value), pseudoElement(This, value),
             pseudoElement(twin.this, value), newLeaf)

Combine ==
    \E c \in Combinators :
        Step(Call("combine", <<c>>), combine(This, c), combine(twin.this, c), FALSE)

Stringify ==
    Step(Call("stringify", <<>>), stringify(This), stringify(twin.this), FALSE)

Next ==
    \/ Element
    \/ Id
    \/ Class
    \/ Attr
    \/ PseudoClass
    \/ PseudoElement
    \/ Combine
    \/ Stringify

Spec == Init /\ [][Next]_vars

SpecExpr == InitExpr /\ [][Next]_vars

SpecTwin == InitTwin /\ [][Next]_vars

\* the two callers only build simple selectors: no combine
NextTwo ==
    \/ Element
    \/ Id
    \/ Class
    \/ Attr
    \/ PseudoClass
    \/ PseudoElement
    \/ Stringify

SpecTwo == InitTwo /\ [][NextTwo]_vars

\* new Rectangle(width, height)
NewRectangle ==
    /\ mode = "rect"
    /\ \E width \in Sides, height \in Sides :
            rect' = [rect EXCEPT !.obj = Rectangle(width, height), !.use = "new"]
    /\ UNCHANGED selector

\* r.width = value: the fields are plain writable properties
SetWidth ==
    /\ mode = "rect"
    /\ \E value \in Sides :
            rect' = [rect EXCEPT !.obj.width = value, !.use = "setWidth"]
    /\ UNCHANGED selector

\* r.height = value
SetHeight ==
    /\ mode = "rect"
    /\ \E value \in Sides :
            rect' = [rect EXCEPT !.obj.height = value, !.use = "setHeight"]
    /\ UNCHANGED selector

\* r.getArea()
GetArea ==
    /\ mode = "rect"
    /\ rect' = [rect EXCEPT !.area = getArea(rect.obj), !.use = "getArea"]
    /\ UNCHANGED selector

NextRect ==
    \/ NewRectangle
    \/ SetWidth
    \/ SetHeight
    \/ GetArea

SpecRect == InitRect /\ [][NextRect]_vars

---------------------------------------------------------------------------
(* Properties *)

\* the number of combinator slots in a fragment sequence
Placeholders(a) == Cardinality({i \in DOMAIN a : a[i] = Null})

\* the number of blanks in a string (only combinator tokens carry blanks)
Blanks(str) == Cardinality({i \in DOMAIN str : str[i] = " "})

\* the shape of builder.combine(simple, c, simple)
TwoSimple == <<"(", "L", "L", ")">>

\* the shape of combine(X1, c1, combine(X2, c2, ... Xk)) with k simple selectors
RECURSIVE RightShape(_)
RightShape(k) ==
    IF k <= 1 THEN <<"L">> ELSE <<"(", "L">> \o RightShape(k - 1) \o <<")">>

\* the operands evaluated so far are those of a right-nested combination
RightNestedSoFar ==
    /\ expr.stack # <<>>
    /\ \A i \in 1..(Len(expr.stack) - 1) : expr.stack[i].shape = <<"L">>
    /\ \E k \in 1..MaxLeaves : Top(expr.stack).shape = RightShape(k)

\* C1: on a builder in its initial state, a chain of fragment calls in the
\* order element?, id?, class*, attr*, pseudoClass*, pseudoElement? raises no
\* error, and stringify() after it returns the fragments' texts, each with
\* its prefix, concatenated in call order.
C1_OrderedChainStringifies ==
    (chain.clean /\ chain.ordered) =>
        /\ res.ret # "throw"
        /\ op.name = "stringify" => (res.ret = "string" /\ res.str = chain.want)

\* element('a').attr('b').attr('a').stringify() has returned 'a[b][a]'
C1_Witness ==
    /\ op.name = "stringify"
    /\ chain.clean /\ chain.ordered
    /\ res.str = <<"a", "[", "b", "]", "[", "a", "]">>

\* C2: within one chain a second call to element, to id or to pseudoElement
\* always raises the duplicate error, whatever was added in between.
C2_SecondCallIsDuplicate ==
    [][(op'.name \in {"element", "id", "pseudoElement"} /\ op'.name \in CurChain.seen) =>
            (res'.ret = "throw" /\ res'.err = errDoubleElem)]_vars

\* C3: a fragment of a category not yet in the chain, added after a fragment
\* of a later category of the same chain, always raises the order error at
\* that call (a category that is in the chain already is the matter of C2).
C3_EarlierCategoryIsOrderError ==
    [][(/\ op'.name \in FragmentNames
        /\ Rank(op'.name) < CurChain.last
        /\ op'.name \notin CurChain.seen) =>
            (res'.ret = "throw" /\ res'.err = errWrongElemOrder)]_vars

\* C4: combine(a, c, b).stringify() of two simple selectors a and b raises no
\* error and returns '<a> c <b>'.
C4_CombineOfTwoSimple ==
    (mode = "expr" /\ expr.leaves = 2
        /\ \A i \in 1..Len(expr.stack) : expr.stack[i].shape \in {<<"L">>, TwoSimple}) =>
        /\ res.ret # "throw"
        /\ op.name = "stringify" =>
                (res.ret = "string" /\ res.str = Top(expr.stack).str)

\* C5: a right-nested combination combine(X, c1, combine(Y, c2, Z)) (and
\* deeper) of simple selectors raises no error and stringify() returns
\* 'X c1 Y c2 Z', the outer combinator first.
C5_RightNestedCombination ==
    (mode = "expr" /\ expr.leaves >= 3 /\ RightNestedSoFar) =>
        /\ res.ret # "throw"
        /\ op.name = "stringify" =>
                (res.ret = "string" /\ res.str = Top(expr.stack).str)

\* C6: after every stringify() that returns a string the builder is in its
\* initial state: no fragments, no combinators, counters 0, isCombo false.
C6_StringifyResets ==
    (op.name = "stringify" /\ res.ret = "string") => This = InitBuilder

\* a chain with an element, an id and a combinator has been stringified, the
\* combinator in the string
C6_Witness ==
    /\ op.name = "stringify" /\ res.ret = "string"
    /\ {"element", "id", "combine"} \subseteq chain.seen
    /\ Blanks(res.str) = 2

\* C7: stringify() in composite mode returns a string if and only if there
\* are as many recorded combinators as slots; otherwise it throws and gives
\* no string.
C7_CompositeCountsDecide ==
    [][(op'.name = "stringify" /\ isCombo) =>
            /\ res'.ret \in {"string", "throw"}
            /\ res'.ret = "string" <=> Len(comb) = Placeholders(arr)
            /\ res'.ret = "throw" => res'.str = <<>>]_vars

\* stringify() has thrown in composite mode, a combinator recorded and no slot
\* (the throw leaves the fields as they were)
C7_Witness ==
    /\ op.name = "stringify" /\ res.ret = "throw"
    /\ isCombo
    /\ Len(comb) = 1 /\ Placeholders(arr) = 0

\* C8: after every combine() the builder is in composite mode, and no
\* recorded combinator is left out of a string stringify() returns.
C8_CombineMarksComposite ==
    [][/\ op'.name = "combine" => isCombo'
       /\ (op'.name = "stringify" /\ res'.ret = "string") =>
                Blanks(res'.str) = 2 * Len(comb)]_vars

\* C9: when a fragment call throws, it throws the duplicate or the order
\* error and leaves no fragments, no combinators and the counters at 0.
C9_FragmentErrorResets ==
    (op.name \in FragmentNames /\ res.ret = "throw") =>
        /\ res.err \in {errDoubleElem, errWrongElemOrder}
        /\ arr = <<>> /\ comb = <<>>
        /\ elCount = 0 /\ idCount = 0 /\ psCount = 0

\* a fragment call has thrown in a chain that had added an id and recorded a
\* combinator
C9_Witness ==
    /\ op.name \in FragmentNames /\ res.ret = "throw"
    /\ {"id", "combine"} \subseteq chain.seen

\* C10: once an Error was thrown, every later call gives back on the builder
\* what it gives back on a new builder given the same calls since the Error.
C10_AfterErrorAsNew ==
    (mode = "twin" /\ twin.on) => res = twin.res

\* the rank of a fragment's category as its text shows it: 6 for '::', 5 for
\* ':', 4 for '[', 3 for '.', 2 for '#', 1 without prefix; 0 for a slot
RankOf(f) ==
    CASE f = Null -> 0
      [] f = <<>> -> 1
      [] Len(f) >= 2 /\ f[1] = ":" /\ f[2] = ":" -> 6
      [] f[1] = ":" -> 5
      [] f[1] = "[" -> 4
      [] f[1] = "." -> 3
      [] f[1] = "#" -> 2
      [] OTHER -> 1

\* positions i <= j of a lie in one simple-selector segment: no slot from i to j
SameSegment(a, i, j) == \A k \in i..j : a[k] # Null

\* the positions of the last segment of a: those after the last slot
LastSegment(a) == {i \in DOMAIN a : SameSegment(a, i, Len(a))}

\* how many fragments of rank r the last segment of a holds
InLastSegment(a, r) == Cardinality({i \in LastSegment(a) : RankOf(a[i]) = r})

C12_OrderedSegments ==
    \A i, j \in DOMAIN arr :
        (i < j /\ SameSegment(arr, i, j)) => RankOf(arr[i]) <= RankOf(arr[j])

\* a segment of an id, two classes and a pseudo-class
C12_Witness ==
    /\ Len(arr) = 4
    /\ RankOf(arr[1]) = 2 /\ RankOf(arr[2]) = 3
    /\ RankOf(arr[3]) = 3 /\ RankOf(arr[4]) = 5

\* C17: in every state elCount, idCount and psCount are 0 or 1 and equal the
\* number of element, id and pseudo-element fragments of the last segment.
C17_CountersCountLastSegment ==
    /\ elCount \in {0, 1} /\ elCount = InLastSegment(arr, 1)
    /\ idCount \in {0, 1} /\ idCount = InLastSegment(arr, 2)
    /\ psCount \in {0, 1} /\ psCount = InLastSegment(arr, 6)

\* an id was counted in the first segment; the second segment has an element
\* and no id
C17_Witness ==
    /\ Len(arr) = 4 /\ arr[3] = Null
    /\ RankOf(arr[2]) = 2
    /\ elCount = 1 /\ idCount = 0 /\ psCount = 0

\* the call gave back the builder with the fragment's text appended to arr
Appended == res'.ret = "this" /\ arr' = Append(arr, Fragment(op'))

\* the call threw msg
Threw(msg) == res'.ret = "throw" /\ res'.err = msg

\* C15: class, attr and pseudoClass raise the order error exactly when there
\* is a last fragment and it is of a strictly later category, and otherwise
\* append their fragment; id raises the duplicate error when the last
\* segment holds an id, else the order error when the last fragment is of a
\* later category, else appends its fragment.
C15_OrderErrorExactlyAfterLater ==
    [][op'.name \in {"id", "class", "attr", "pseudoClass"} =>
            LET later == arr # <<>> /\ RankOf(arr[Len(arr)]) > Rank(op'.name)
                hasId == InLastSegment(arr, 2) > 0
            IN  IF op'.name = "id" /\ hasId THEN Threw(errDoubleElem)
                ELSE IF later THEN Threw(errWrongElemOrder)
                ELSE Appended]_vars

\* id('..').class('..').id('..'): the second id threw the duplicate error
\* although the last fragment was a class
C15_Witness ==
    /\ op.name = "id" /\ res.ret = "throw" /\ res.err = errDoubleElem
    /\ chain.seen = {"id", "class"}

\* C18: combine only appends ' <combinator> ' to comb: it never throws and
\* leaves arr, the three counters and isCombo as they were.
C18_CombineOnlyRecords ==
    [][op'.name = "combine" =>
            /\ res'.ret = "this"
            /\ comb' = Append(comb, <<" ">> \o op'.value \o <<" ">>)
            /\ arr' = arr /\ isCombo' = isCombo
            /\ elCount' = elCount /\ idCount' = idCount /\ psCount' = psCount]_vars

\* combine was called on a builder with fragments, a counted id and isCombo
\* false
C18_Witness ==
    /\ op.name = "combine" /\ Len(comb) = 1
    /\ arr # <<>> /\ idCount = 1 /\ ~isCombo

\* C19: a stringify() that throws leaves every field as it was, and a
\* stringify() right after a stringify() that threw throws again.
C19_FailedStringifyChangesNothing ==
    [][/\ (op'.name = "stringify" /\ res'.ret = "throw") => This' = This
       /\ (op.name = "stringify" /\ res.ret = "throw" /\ op'.name = "stringify") =>
                res'.ret = "throw"]_vars

\* stringify() has thrown with a slot in arr and no combinator; arr, the
\* counters and isCombo are still there
C19_Witness ==
    /\ op.name = "stringify" /\ res.ret = "throw"
    /\ Placeholders(arr) = 1 /\ comb = <<>>
    /\ isCombo /\ elCount = 1

C13_AreaOfCurrentFields ==
    /\ rect.use = "new" =>
            /\ rect.obj.width = rect.obj.scope.width
            /\ rect.obj.height = rect.obj.scope.height
    /\ rect.use = "getArea" => rect.area = rect.obj.width * rect.obj.height

\* new Rectangle(10, 20).getArea() returned 200
C13_Witness ==
    /\ rect.use = "getArea" /\ rect.area = 200
    /\ rect.obj = Rectangle(10, 20)

\* the characters of the other caller's value in a string
Foreign(str, c) == {i \in DOMAIN str : <<str[i]>> = ValueOf(Other(c))}

\* C14: two chains that are each valid alone interfere when their calls are
\* interleaved on the shared builder: whenever the other caller made a call
\* while a chain was under way, the string that chain's stringify() returns
\* is not the text of the chain's own fragments.
C14_InterleavedChainsInterfere ==
    (/\ mode = "two"
     /\ op.name = "stringify" /\ res.ret = "string"
     /\ two.mixed[two.who]) =>
        res.str # two.want[two.who]

\* a chain's stringify() returned a string holding a fragment of the other
\* chain, while the other chain is still under way
C14_Witness ==
    /\ mode = "two"
    /\ op.name = "stringify" /\ res.ret = "string"
    /\ two.mixed[two.who]
    /\ Foreign(res.str, two.who) # {}
    /\ two.pc[Other(two.who)] = "run"

====
